---- MODULE Spec2Model ----
(***************************************************************************)
(* Model of Serial_IA_CNN.ino: a line of text received over the serial     *)
(* port is assembled by serialEvent(), parsed into the 8x8 matrix          *)
(* matrizEntrada by parseMatrizFromString(), classified by                 *)
(* runInferenceAndBlinkLed() and signalled on the LED by piscarLED().      *)
(*                                                                         *)
(* A String is a sequence of one-character strings.  Indices of the        *)
(* operators that model the Arduino String methods are 0-based, as in the  *)
(* sketch.  A float is an integer number of thousandths (Scale).           *)
(***************************************************************************)
EXTENDS Integers, Sequences, FiniteSets, TLC

\* ------------------------------------------------------------- constants

tamMatriz == 8

expectedValues == tamMatriz * tamMatriz

NUM_LABELS == 3

\* One unit of a float of the model is 1/Scale: three decimal digits.
Scale == 10 * 10 * 10

\* The threshold 0.85 of the decision, in units of 1/Scale.
Limiar == (85 * Scale) \div 100

\* ------------------------------------------------------------- bounds

\* Lines the sender transmits in one behaviour.
MaxLines == 2

\* Bytes the receive buffer of the serial port holds before the sender waits.
RxCap == 2

\* Characters of a string handed to the sanitizer on its own.
MaxStrLen == 3

\* ------------------------------------------------------- Arduino String

Digits == {"0", "1", "2", "3", "4", "5", "6", "7", "8", "9"}

DigitVal(c) ==
  CASE c = "0" -> 0 [] c = "1" -> 1 [] c = "2" -> 2 [] c = "3" -> 3
    [] c = "4" -> 4 [] c = "5" -> 5 [] c = "6" -> 6 [] c = "7" -> 7
    [] c = "8" -> 8 [] c = "9" -> 9

\* str.replace(c, ""): every occurrence of the character c is removed.
Replace(str, c) == SelectSeq(str, LAMBDA x : x # c)

\* str.indexOf(ch, fromIndex): -1 when fromIndex is at or past the end,
\* otherwise the first position >= fromIndex holding ch, or -1.
IndexOf(str, ch, fromIndex) ==
  IF fromIndex >= Len(str) THEN -1
  ELSE IF \E k \in fromIndex .. Len(str) - 1 : str[k + 1] = ch
    THEN CHOOSE k \in fromIndex .. Len(str) - 1 :
           /\ str[k + 1] = ch
           /\ \A h \in fromIndex .. k - 1 : str[h + 1] # ch
    ELSE -1

\* str.substring(left, right): the characters at left .. right-1; the two
\* are swapped when left > right, right is cut to the length, and the
\* result is empty when left is at or past the end.
Substring(str, left, right) ==
  LET lo == IF left > right THEN right ELSE left
      hi0 == IF left > right THEN left ELSE right
      hi == IF hi0 > Len(str) THEN Len(str) ELSE hi0
  IN  IF lo >= Len(str) THEN << >> ELSE SubSeq(str, lo + 1, hi)

\* str.substring(left): to the end of the string.
SubstringFrom(str, left) == Substring(str, left, Len(str))

\* The digits of str from position p (1-based) on, as far as they go.
RECURSIVE DigitRun(_, _)
DigitRun(str, p) ==
  IF p <= Len(str) /\ str[p] \in Digits
    THEN <<str[p]>> \o DigitRun(str, p + 1)
    ELSE << >>

RECURSIVE DigitsValue(_)
DigitsValue(ds) ==
  IF ds = << >> THEN 0
  ELSE 10 * DigitsValue(SubSeq(ds, 1, Len(ds) - 1)) + DigitVal(ds[Len(ds)])

\* The first three fraction digits, in thousandths.
FracValue(ds) ==
  LET d(k) == IF k <= Len(ds) THEN DigitVal(ds[k]) ELSE 0
  IN  100 * d(1) + 10 * d(2) + d(3)

\* valorStr.toFloat(): atof of the buffer.  An optional sign, digits, an
\* optional point and digits are converted; conversion stops at the first
\* character that does not fit, and a string with no digit at its start
\* gives 0.  The value is in thousandths; fraction digits past the third
\* are below the resolution of the model.  Exponents and the words atof
\* reads as infinity or not-a-number do not occur in the lines of the model.
ToFloat(str) ==
  LET neg == Len(str) >= 1 /\ str[1] = "-"
      p0 == IF Len(str) >= 1 /\ str[1] \in {"-", "+"} THEN 2 ELSE 1
      ip == DigitRun(str, p0)
      p1 == p0 + Len(ip)
      fp == IF p1 <= Len(str) /\ str[p1] = "." THEN DigitRun(str, p1 + 1) ELSE << >>
      mag == IF ip = << >> /\ fp = << >> THEN 0
             ELSE Scale * DigitsValue(ip) + FracValue(fp)
  IN  IF neg THEN 0 - mag ELSE mag

\* ------------------------------------------------ parseMatrizFromString

\* Sanitize without the replace of the tab.
SanitizeNoTab(str) ==
  LET s1 == Replace(str, "[")
      s2 == Replace(s1, "]")
      s3 == Replace(s2, "{")
      s4 == Replace(s3, "}")
      s6 == Replace(s4, "\n")
      s7 == Replace(s6, "\r")
  IN  Replace(s7, " ")

\* The eight replace calls that strip brackets and whitespace.
Sanitize(str) ==
  LET s1 == Replace(str, "[")
      s2 == Replace(s1, "]")
      s3 == Replace(s2, "{")
      s4 == Replace(s3, "}")
      s5 == Replace(s4, "\t")
      s6 == Replace(s5, "\n")
      s7 == Replace(s6, "\r")
  IN  Replace(s7, " ")

\* The token the loop cuts at position start: up to the next comma, or to
\* the end of the string when there is none.
TokenAt(str, start) ==
  LET commaIndex == IndexOf(str, ",", start)
  IN  IF commaIndex = -1 THEN SubstringFrom(str, start)
      ELSE Substring(str, start, commaIndex)

\* ScanMore with <= for <.
ScanMoreInclusive(idx) == idx <= expectedValues

\* The loop condition: another value is still expected.
ScanMore(idx) == idx < expectedValues

\* ScanStep without the check for an empty token.
ScanStepNoCheck(str, st) ==
  LET commaIndex == IndexOf(str, ",", st.start)
      valorStr == TokenAt(str, st.start)
  IN  IF commaIndex = -1
        THEN [exit |-> "done", start |-> st.start, idx |-> st.idx + 1,
              valores |-> Append(st.valores, ToFloat(valorStr))]
      ELSE [exit |-> "more", start |-> commaIndex + 1, idx |-> st.idx + 1,
            valores |-> Append(st.valores, ToFloat(valorStr))]

\* ScanStep without the idx++.
ScanStepNoCount(str, st) ==
  LET commaIndex == IndexOf(str, ",", st.start)
      valorStr == TokenAt(str, st.start)
  IN  IF Len(valorStr) = 0
        THEN [st EXCEPT !.exit = "empty"]
      ELSE IF commaIndex = -1
        THEN [exit |-> "done", start |-> st.start, idx |-> st.idx,
              valores |-> Append(st.valores, ToFloat(valorStr))]
      ELSE [exit |-> "more", start |-> commaIndex + 1, idx |-> st.idx,
            valores |-> Append(st.valores, ToFloat(valorStr))]

\* ScanStep returning false on a token that does not start like a number.
ScanStepStrict(str, st) ==
  LET commaIndex == IndexOf(str, ",", st.start)
      valorStr == TokenAt(str, st.start)
  IN  IF Len(valorStr) = 0 \/ valorStr[1] \notin Digits \cup {"+", "-", "."}
        THEN [st EXCEPT !.exit = "empty"]
      ELSE IF commaIndex = -1
        THEN [exit |-> "done", start |-> st.start, idx |-> st.idx + 1,
              valores |-> Append(st.valores, ToFloat(valorStr))]
      ELSE [exit |-> "more", start |-> commaIndex + 1, idx |-> st.idx + 1,
            valores |-> Append(st.valores, ToFloat(valorStr))]

\* One pass of the body of the while loop, from the scan position
\* st.start, the count st.idx and the buffer st.valores (its first idx
\* entries).  exit says how the pass ends: "empty" is the return false on
\* an empty token, "done" the break at the end of the string, "more" the
\* step to the character after the comma.
ScanStep(str, st) ==
  LET commaIndex == IndexOf(str, ",", st.start)
      valorStr == TokenAt(str, st.start)
  IN  IF Len(valorStr) = 0
        THEN [st EXCEPT !.exit = "empty"]
      ELSE IF commaIndex = -1
        THEN [exit |-> "done", start |-> st.start, idx |-> st.idx + 1,
              valores |-> Append(st.valores, ToFloat(valorStr))]
      ELSE [exit |-> "more", start |-> commaIndex + 1, idx |-> st.idx + 1,
            valores |-> Append(st.valores, ToFloat(valorStr))]

\* while (idx < expectedValues) { ... }: the state in which the loop is left.
RECURSIVE ScanTokens(_, _)
ScanTokens(str, st) ==
  IF st.exit # "more" THEN st
  ELSE IF ~ScanMore(st.idx) THEN [st EXCEPT !.exit = "done"]
  ELSE ScanTokens(str, ScanStep(str, st))

\* The states in which the loop condition is evaluated, in order, and last
\* the state in which the loop is left by a return or a break.
RECURSIVE ScanPasses(_, _)
ScanPasses(str, st) ==
  IF st.exit # "more" \/ ~ScanMore(st.idx) THEN <<st>>
  ELSE <<st>> \o ScanPasses(str, ScanStep(str, st))

\* int start = 0; int idx = 0; and nothing in valores yet.
ScanStart == [exit |-> "more", start |-> 0, idx |-> 0, valores |-> << >>]

\* CopyToMatrix with the two indices exchanged.
CopyTransposed(valores) ==
  [i \in 0 .. tamMatriz - 1 |->
     [j \in 0 .. tamMatriz - 1 |-> valores[j * tamMatriz + i + 1]]]

\* The two nested loops that copy valores into the matrix, row by row.
CopyToMatrix(valores) ==
  [i \in 0 .. tamMatriz - 1 |->
     [j \in 0 .. tamMatriz - 1 |-> valores[i * tamMatriz + j + 1]]]

\* The check after the loop: the count must be the expected one.
CountOk(idx) == idx = expectedValues

\* ParseMatriz writing each value into the matrix as it is converted,
\* without the buffer valores.
ParseMatrizInPlace(str, antes) ==
  LET scan == ScanTokens(Sanitize(str), ScanStart)
      written == [r \in 0 .. tamMatriz - 1 |-> [c \in 0 .. tamMatriz - 1 |->
                    IF r * tamMatriz + c < scan.idx
                      THEN scan.valores[r * tamMatriz + c + 1]
                      ELSE antes[r][c]]]
  IN  IF scan.exit = "empty"
        THEN [ok |-> FALSE, exit |-> "empty", matriz |-> written]
      ELSE IF ~CountOk(scan.idx)
        THEN [ok |-> FALSE, exit |-> "short", matriz |-> written]
      ELSE [ok |-> TRUE, exit |-> "ok", matriz |-> written]

\* parseMatrizFromString(str) called with the matrix antes: the value
\* returned (ok), the return statement taken (exit: "empty" is line 136,
\* "short" line 145, "ok" line 155) and the matrix after the call.  The
\* loop writes to the local buffer valores only, so a failing call leaves
\* the matrix as it was.
ParseMatriz(str, antes) ==
  LET scan == ScanTokens(Sanitize(str), ScanStart)
  IN  IF scan.exit = "empty"
        THEN [ok |-> FALSE, exit |-> "empty", matriz |-> antes]
      ELSE IF ~CountOk(scan.idx)
        THEN [ok |-> FALSE, exit |-> "short", matriz |-> antes]
      ELSE [ok |-> TRUE, exit |-> "ok", matriz |-> CopyToMatrix(scan.valores)]

\* -------------------------------------------- runInferenceAndBlinkLed

\* Maior with >= for >.
MaiorOuIgual(prob, maiorValor) == prob >= maiorValor

\* The comparison of the scan for the largest probability.
Maior(prob, maiorValor) == prob > maiorValor

\* for (i = 0; i < NUM_LABELS; i++) if (prob > maiorValor) { ... }, from
\* maiorValor = 0.0 and indiceMaior = -1: the state after the labels
\* i .. NUM_LABELS-1 have been looked at.
RECURSIVE ScanMaior(_, _, _, _)
ScanMaior(saida, i, maiorValor, indiceMaior) ==
  IF i >= NUM_LABELS THEN [maiorValor |-> maiorValor, indiceMaior |-> indiceMaior]
  ELSE IF Maior(saida[i], maiorValor)
    THEN ScanMaior(saida, i + 1, saida[i], i)
    ELSE ScanMaior(saida, i + 1, maiorValor, indiceMaior)

\* AcimaDoLimiar with the threshold left at zero.
AcimaDoLimiarZero(maiorValor) == maiorValor >= 0

\* AcimaDoLimiar with the threshold 0.085.
AcimaDoLimiarErrado(maiorValor) == 10 * maiorValor >= Limiar

\* if (maiorValor >= 0.85)
AcimaDoLimiar(maiorValor) == maiorValor >= Limiar

\* switch (indiceMaior): the argument of piscarLED, 0 when no case matches.
VezesDe(indiceMaior) ==
  CASE indiceMaior = 0 -> 1
    [] indiceMaior = 1 -> 2
    [] indiceMaior = 2 -> 3
    [] OTHER -> 0

\* Flatten with the index c*tamMatriz + r.
FlattenByColumn(matriz) ==
  [k \in 0 .. expectedValues - 1 |-> matriz[k % tamMatriz][k \div tamMatriz]]

\* The row-major order in which modelSetInput is given the matrix.
Flatten(matriz) ==
  [k \in 0 .. expectedValues - 1 |-> matriz[k \div tamMatriz][k % tamMatriz]]

\* ------------------------------------------------------ the lines sent

DigitChar(n) ==
  CASE n = 0 -> "0" [] n = 1 -> "1" [] n = 2 -> "2" [] n = 3 -> "3"
    [] n = 4 -> "4" [] n = 5 -> "5" [] n = 6 -> "6" [] n = 7 -> "7"
    [] n = 8 -> "8" [] n = 9 -> "9"

\* The tokens joined by the separator sep.
RECURSIVE JoinWith(_, _)
JoinWith(toks, sep) ==
  IF toks = << >> THEN << >>
  ELSE IF Len(toks) = 1 THEN toks[1]
  ELSE toks[1] \o sep \o JoinWith(Tail(toks), sep)

\* The tokens joined by commas.
Join(toks) == JoinWith(toks, <<",">>)

\* A line of n tokens, the k-th (from 0) being Tok(k).
LineOf(n, Tok(_)) == Join([k \in 1 .. n |-> Tok(k - 1)])

\* One digit per token, changing with the position.
DigTok(k) == <<DigitChar(k % 10)>>

\* 0.1 .. 0.8 repeating, the row of the example in the header of the sketch.
DecTok(k) == <<"0", ".", DigitChar((k % tamMatriz) + 1)>>

\* Signs, points, decoration and text that is no number.
MixTok(k) ==
  CASE k % 5 = 0 -> <<"x">>
    [] k % 5 = 1 -> <<" ", "2", ".", "5">>
    [] k % 5 = 2 -> <<"-", "1">>
    [] k % 5 = 3 -> <<"{", "7", "x", "}">>
    [] OTHER -> <<".", "2", "5", "9">>

\* DigTok with the token at position e left empty.
HoleTok(e, k) == IF k = e THEN << >> ELSE DigTok(k)

\* "[[0.1,...,0.8],[0.1,...,0.8], ... ]": eight rows in brackets.
Exemplo ==
  LET row == <<"[">> \o LineOf(tamMatriz, DecTok) \o <<"]">>
  IN  <<"[">> \o Join([r \in 1 .. tamMatriz |-> row]) \o <<"]">>

\* The lines the sender of Spec chooses from, without their line ends.
Linhas ==
  << Exemplo,
     LineOf(expectedValues, DigTok),
     LineOf(expectedValues - 1, DigTok),
     LineOf(expectedValues + 1, DigTok),
     LineOf(expectedValues, DigTok) \o <<",">>,
     LineOf(expectedValues - 1, DigTok) \o <<",">>,
     LineOf(expectedValues, LAMBDA k : HoleTok(9, k)),
     LineOf(expectedValues, MixTok),
     << >>,
     <<"1", ",", ",", "2">>,
     <<"1", ",", "2">> >>

\* The lines the sender of LiveSpec chooses from: a line that parses, the
\* empty line, a line with an empty token, a line of two tokens.
LinhasBreves == {2, 9, 10, 11}

\* The example as the header of the sketch writes it: a space after each
\* comma.
ExemploEspacado ==
  LET row == <<"[">> \o JoinWith([k \in 1 .. tamMatriz |-> DecTok(k - 1)], <<",", " ">>)
             \o <<"]">>
  IN  <<"[">> \o JoinWith([r \in 1 .. tamMatriz |-> row], <<",", " ">>) \o <<"]">>

TokOf(kind, k) ==
  CASE kind = "dig" -> DigTok(k)
    [] kind = "dec" -> DecTok(k)
    [] OTHER -> MixTok(k)

\* A line of n tokens of the given kind, the one at position e (if any)
\* empty, plain or decorated with brackets or with whitespace.
Linha(n, kind, e, deco) ==
  LET toks == [k \in 1 .. n |-> IF k - 1 = e THEN << >> ELSE TokOf(kind, k - 1)]
  IN  CASE deco = "plain" -> Join(toks)
        [] deco = "brackets" -> <<"[", "{">> \o Join(toks) \o <<"}", "]">>
        [] OTHER -> <<" ">> \o JoinWith(toks, <<"\t", ",", " ">>)

\* The lines parseMatrizFromString is given in ParseSpec.
Entradas ==
  { Linha(n, kind, e, deco) :
      n \in {0, 1, 2, expectedValues - 1, expectedValues, expectedValues + 1,
             expectedValues + 2},
      kind \in {"dig", "dec", "mix"},
      e \in {-1, 0, 1, expectedValues - 2, expectedValues - 1, expectedValues,
             expectedValues + 1},
      deco \in {"plain", "brackets", "spaces"} }
  \cup {Exemplo, ExemploEspacado}

\* The bytes on the wire for line n: odd lines end in CR LF, even ones in LF.
Wire(n) ==
  IF n % 2 = 1 THEN Linhas[n] \o <<"\r", "\n">> ELSE Linhas[n] \o <<"\n">>

\* The probabilities the inference engine may put out, in units of 1/Scale.
Probs == {0, 500, 850, 900}

Saidas == [0 .. NUM_LABELS - 1 -> Probs]

ZeroMatrix == [i \in 0 .. tamMatriz - 1 |-> [j \in 0 .. tamMatriz - 1 |-> 0]]

ZeroVector == [k \in 0 .. NUM_LABELS - 1 |-> 0]

\* ------------------------------------------------------------ the state

VARIABLES
  pc,             \* where the sketch is: "setup", "halt", "loop", "flatten",
                  \* "infer", "scan", "decide", "high", "low", "reset", "event"
  txLine,         \* the line being sent (index into Linhas), 0 when none
  txPos,          \* bytes of that line already on the wire
  sent,           \* lines the sender has started
  rx,             \* bytes received and not yet read by Serial.read()
  inputString,    \* String inputString
  stringComplete, \* bool stringComplete
  matrizEntrada,  \* float matrizEntrada[8][8]
  modelInput,     \* the input of the engine, written by modelSetInput
  saida,          \* the output of the engine, read by modelGetOutput
  maiorValor,     \* float maiorValor of runInferenceAndBlinkLed
  indiceMaior,    \* int indiceMaior of runInferenceAndBlinkLed
  vezes,          \* the argument of piscarLED
  i,              \* the loop counter of piscarLED
  led,            \* the level of LED_BUILTIN
  retorno,        \* the return taken by parseMatrizFromString in this cycle
  relato,         \* the messages printed in this cycle
  pulsos          \* the times the LED was switched on in this cycle

vars == << pc, txLine, txPos, sent, rx, inputString, stringComplete,
           matrizEntrada, modelInput, saida, maiorValor, indiceMaior, vezes,
           i, led, retorno, relato, pulsos >>

serialVars == << txLine, txPos, sent, rx >>

lineVars == << inputString, stringComplete >>

inferVars == << modelInput, saida, maiorValor, indiceMaior, vezes, i, led, pulsos >>

Init ==
  /\ pc = "setup"
  /\ txLine = 0
  /\ txPos = 0
  /\ sent = 0
  /\ rx = << >>
  /\ inputString = << >>
  /\ stringComplete = FALSE
  /\ matrizEntrada = ZeroMatrix
  /\ modelInput = Flatten(ZeroMatrix)
  /\ saida = ZeroVector
  /\ maiorValor = 0
  /\ indiceMaior = -1
  /\ vezes = 0
  /\ i = 0
  /\ led = "LOW"
  /\ retorno = "none"
  /\ relato = << >>
  /\ pulsos = 0

\* ------------------------------------------------------- the serial port

\* The sender starts another line, one of those numbered in from.
StartLineFrom(from) ==
  /\ txLine = 0
  /\ sent < MaxLines
  /\ \E n \in from : txLine' = n
  /\ txPos' = 0
  /\ sent' = sent + 1
  /\ UNCHANGED << pc, rx, lineVars, matrizEntrada, inferVars, retorno, relato >>

StartLine == StartLineFrom(1 .. Len(Linhas))

StartBreve == StartLineFrom(LinhasBreves)

\* The next byte of the line arrives in the receive buffer.
Receive ==
  /\ txLine # 0
  /\ Len(rx) < RxCap
  /\ rx' = Append(rx, Wire(txLine)[txPos + 1])
  /\ IF txPos + 1 = Len(Wire(txLine))
       THEN txLine' = 0 /\ txPos' = 0
       ELSE txLine' = txLine /\ txPos' = txPos + 1
  /\ UNCHANGED << pc, sent, lineVars, matrizEntrada, inferVars, retorno, relato >>

\* ----------------------------------------------------------------- setup

\* Setup with the while (true) after the failure message left out.
SetupFallsThrough ==
  /\ pc = "setup"
  /\ \E ok \in BOOLEAN :
       /\ pc' = "loop"
       /\ relato' = IF ok THEN relato ELSE Append(relato, "inicializacao")
  /\ UNCHANGED << serialVars, lineVars, matrizEntrada, inferVars, retorno >>

\* setup(): modelInit succeeds and loop() is entered, or it fails, the
\* failure is printed and the sketch spins in while (true).
Setup ==
  /\ pc = "setup"
  /\ \E ok \in BOOLEAN :
       /\ pc' = IF ok THEN "loop" ELSE "halt"
       /\ relato' = IF ok THEN relato ELSE Append(relato, "inicializacao")
  /\ UNCHANGED << serialVars, lineVars, matrizEntrada, inferVars, retorno >>

\* ------------------------------------------------------------------ loop

\* The Arduino core calls setup() once and then, for ever, loop() followed
\* by serialEvent() when bytes are available: serialEvent runs between two
\* calls of loop(), never during one.  Bytes arrive in the receive buffer
\* at any time.

\* loop() with no complete line: it returns, and serialEvent is run.
LoopIdle ==
  /\ pc = "loop"
  /\ ~stringComplete
  /\ pc' = "event"
  /\ UNCHANGED << serialVars, lineVars, matrizEntrada, inferVars, retorno, relato >>

\* AfterParse with the value returned ignored.
AfterParseIgnored(ok) == [pc |-> "flatten", msg |-> "convertida"]

\* AfterParse stopping the sketch on a failure.
AfterParseFatal(ok) ==
  IF ok THEN [pc |-> "flatten", msg |-> "convertida"]
  ELSE [pc |-> "halt", msg |-> "erro"]

\* What loop() does with the value parseMatrizFromString returned.
AfterParse(ok) ==
  IF ok THEN [pc |-> "flatten", msg |-> "convertida"]
  ELSE [pc |-> "reset", msg |-> "erro"]

\* loop() with a complete line: the line is echoed and parsed.
LoopParse ==
  /\ pc = "loop"
  /\ stringComplete
  /\ \E r \in {ParseMatriz(inputString, matrizEntrada)} :
       \E next \in {AfterParse(r.ok)} :
         /\ matrizEntrada' = r.matriz
         /\ retorno' = r.exit
         /\ relato' = <<"recebida", next.msg>>
         /\ pc' = next.pc
  /\ pulsos' = 0
  /\ UNCHANGED << serialVars, lineVars, modelInput, saida, maiorValor,
                  indiceMaior, vezes, i, led >>

\* The matrix is handed to the engine with modelSetInput.
SetInput ==
  /\ pc = "flatten"
  /\ modelInput' = Flatten(matrizEntrada)
  /\ pc' = "infer"
  /\ UNCHANGED << serialVars, lineVars, matrizEntrada, saida, maiorValor,
                  indiceMaior, vezes, i, led, retorno, relato, pulsos >>

\* RunInference with the value modelRunInference returned ignored.
RunInferenceUnchecked ==
  /\ pc = "infer"
  /\ \/ /\ relato' = Append(relato, "falha")
        /\ pc' = "scan"
        /\ saida' \in Saidas
     \/ /\ saida' \in Saidas
        /\ relato' = Append(relato, "resultados")
        /\ pc' = "scan"
  /\ UNCHANGED << serialVars, lineVars, matrizEntrada, modelInput, maiorValor,
                  indiceMaior, vezes, i, led, retorno, pulsos >>

\* RunInference calling modelRunInference again after a failure.
RunInferenceRetry ==
  /\ pc = "infer"
  /\ \/ /\ relato' = Append(relato, "falha")
        /\ pc' = IF Len(relato) < 3 THEN "infer" ELSE "reset"
        /\ saida' = saida
     \/ /\ saida' \in Saidas
        /\ relato' = Append(relato, "resultados")
        /\ pc' = "scan"
  /\ UNCHANGED << serialVars, lineVars, matrizEntrada, modelInput, maiorValor,
                  indiceMaior, vezes, i, led, retorno, pulsos >>

\* modelRunInference(): it fails and the function returns, or it leaves a
\* probability for each label.
RunInference ==
  /\ pc = "infer"
  /\ \/ /\ relato' = Append(relato, "falha")
        /\ pc' = "reset"
        /\ saida' = saida
     \/ /\ saida' \in Saidas
        /\ relato' = Append(relato, "resultados")
        /\ pc' = "scan"
  /\ UNCHANGED << serialVars, lineVars, matrizEntrada, modelInput, maiorValor,
                  indiceMaior, vezes, i, led, retorno, pulsos >>

\* The scan for the largest probability.
ScanOutput ==
  /\ pc = "scan"
  /\ \E m \in {ScanMaior(saida, 0, 0, -1)} :
       /\ maiorValor' = m.maiorValor
       /\ indiceMaior' = m.indiceMaior
  /\ pc' = "decide"
  /\ UNCHANGED << serialVars, lineVars, matrizEntrada, modelInput, saida,
                  vezes, i, led, retorno, relato, pulsos >>

\* The decision: the class is reported and piscarLED is called, or no
\* class is above the threshold.
Decide ==
  /\ pc = "decide"
  /\ IF AcimaDoLimiar(maiorValor)
       THEN /\ relato' = Append(relato, "classe")
            /\ vezes' = VezesDe(indiceMaior)
            /\ i' = 0
            /\ pc' = IF VezesDe(indiceMaior) > 0 THEN "high" ELSE "reset"
       ELSE /\ relato' = Append(relato, "nenhuma")
            /\ UNCHANGED << vezes, i >>
            /\ pc' = "reset"
  /\ UNCHANGED << serialVars, lineVars, matrizEntrada, modelInput, saida,
                  maiorValor, indiceMaior, led, retorno, pulsos >>

\* piscarLED: digitalWrite(LED_BUILTIN, HIGH); delay(500).
BlinkHigh ==
  /\ pc = "high"
  /\ led' = "HIGH"
  /\ pulsos' = pulsos + 1
  /\ pc' = "low"
  /\ UNCHANGED << serialVars, lineVars, matrizEntrada, modelInput, saida,
                  maiorValor, indiceMaior, vezes, i, retorno, relato >>

\* BlinkAgain with <= for <.
BlinkAgainInclusive(n, v) == n <= v

\* The test of the loop of piscarLED after i++.
BlinkAgain(n, v) == n < v

\* piscarLED: digitalWrite(LED_BUILTIN, LOW); delay(500); i++.
BlinkLow ==
  /\ pc = "low"
  /\ led' = "LOW"
  /\ i' = i + 1
  /\ pc' = IF BlinkAgain(i + 1, vezes) THEN "high" ELSE "reset"
  /\ UNCHANGED << serialVars, lineVars, matrizEntrada, modelInput, saida,
                  maiorValor, indiceMaior, vezes, retorno, relato, pulsos >>

\* LoopReset emptying the receive buffer as well.
LoopResetFlush ==
  /\ pc = "reset"
  /\ inputString' = << >>
  /\ stringComplete' = FALSE
  /\ saida' = ZeroVector
  /\ maiorValor' = 0
  /\ indiceMaior' = -1
  /\ vezes' = 0
  /\ i' = 0
  /\ retorno' = "none"
  /\ relato' = << >>
  /\ pulsos' = 0
  /\ pc' = "event"
  /\ rx' = << >>
  /\ UNCHANGED << txLine, txPos, sent, matrizEntrada, modelInput, led >>

\* The end of loop(): the line is dropped and the flag cleared; the locals
\* of the cycle are gone.
LoopReset ==
  /\ pc = "reset"
  /\ inputString' = << >>
  /\ stringComplete' = FALSE
  /\ saida' = ZeroVector
  /\ maiorValor' = 0
  /\ indiceMaior' = -1
  /\ vezes' = 0
  /\ i' = 0
  /\ retorno' = "none"
  /\ relato' = << >>
  /\ pulsos' = 0
  /\ pc' = "event"
  /\ UNCHANGED << serialVars, matrizEntrada, modelInput, led >>

\* ----------------------------------------------------------- serialEvent

\* OnChar without the break at the line feed.
OnCharNoBreak(inChar, str, complete) ==
  IF inChar = "\r" THEN [str |-> str, complete |-> complete, more |-> TRUE]
  ELSE IF inChar = "\n" THEN [str |-> str, complete |-> TRUE, more |-> TRUE]
  ELSE [str |-> Append(str, inChar), complete |-> complete, more |-> TRUE]

\* What one pass of the loop of serialEvent does with the character read:
\* the new inputString, the new stringComplete, and whether the loop goes on.
OnChar(inChar, str, complete) ==
  IF inChar = "\r" THEN [str |-> str, complete |-> complete, more |-> TRUE]
  ELSE IF inChar = "\n" THEN [str |-> str, complete |-> TRUE, more |-> FALSE]
  ELSE [str |-> Append(str, inChar), complete |-> complete, more |-> TRUE]

\* One pass of while (Serial.available()): a byte is read and handled.
SerialEventChar ==
  /\ pc = "event"
  /\ rx # << >>
  /\ \E r \in {OnChar(Head(rx), inputString, stringComplete)} :
       /\ inputString' = r.str
       /\ stringComplete' = r.complete
       /\ pc' = IF r.more THEN "event" ELSE "loop"
  /\ rx' = Tail(rx)
  /\ UNCHANGED << txLine, txPos, sent, matrizEntrada, inferVars, retorno, relato >>

\* Nothing is available: serialEvent is over (or was not called), and
\* loop() is called again.
SerialEventEnd ==
  /\ pc = "event"
  /\ rx = << >>
  /\ pc' = "loop"
  /\ UNCHANGED << serialVars, lineVars, matrizEntrada, inferVars, retorno, relato >>

\* --------------------------------------------------------- specification

\* The steps of the sketch other than the call of parseMatrizFromString.
SketchRest ==
  \/ Setup
  \/ LoopIdle
  \/ SetInput
  \/ RunInference
  \/ ScanOutput
  \/ Decide
  \/ BlinkHigh
  \/ BlinkLow
  \/ LoopReset
  \/ SerialEventChar
  \/ SerialEventEnd

Sketch == LoopParse \/ SketchRest

Next == StartLine \/ Receive \/ Sketch

Spec == Init /\ [][Next]_vars

LiveNext == StartBreve \/ Receive \/ Sketch

\* loop() gets past the call of parseMatrizFromString.
ParseReturns == pc = "loop" /\ stringComplete /\ pc' \in {"flatten", "reset"}

\* The processor keeps running the sketch: every step of it that can be
\* taken is taken, and the call of parseMatrizFromString returns.
LiveSpec ==
  Init /\ [][LiveNext]_vars /\ WF_vars(SketchRest) /\ WF_pc(ParseReturns)

\* parseMatrizFromString on its own: loop() finds a complete line, any of
\* Entradas, and a matrix left by an earlier line or none.
ParseInit ==
  /\ pc = "loop"
  /\ txLine = 0
  /\ txPos = 0
  /\ sent = MaxLines
  /\ rx = << >>
  /\ inputString \in Entradas
  /\ stringComplete = TRUE
  /\ matrizEntrada \in {ZeroMatrix, CopyToMatrix([k \in 1 .. expectedValues |-> k])}
  /\ modelInput = Flatten(ZeroMatrix)
  /\ saida = ZeroVector
  /\ maiorValor = 0
  /\ indiceMaior = -1
  /\ vezes = 0
  /\ i = 0
  /\ led = "LOW"
  /\ retorno = "none"
  /\ relato = << >>
  /\ pulsos = 0

ParseSpec == ParseInit /\ [][LoopParse]_vars

\* The probabilities of DecisionSpec, in units of 1/Scale.
ProbsAmplas == {0, 50, 100, 500, 849, 850, 900, 1000}

\* The decision on its own: the engine has put out any vector of
\* ProbsAmplas for the second line of Linhas.
DecisionInit ==
  /\ pc = "scan"
  /\ txLine = 0
  /\ txPos = 0
  /\ sent = MaxLines
  /\ rx = << >>
  /\ inputString = Linhas[2]
  /\ stringComplete = TRUE
  /\ matrizEntrada = ParseMatriz(Linhas[2], ZeroMatrix).matriz
  /\ modelInput = Flatten(matrizEntrada)
  /\ saida \in [0 .. NUM_LABELS - 1 -> ProbsAmplas]
  /\ maiorValor = 0
  /\ indiceMaior = -1
  /\ vezes = 0
  /\ i = 0
  /\ led = "LOW"
  /\ retorno = "ok"
  /\ relato = <<"recebida", "convertida", "resultados">>
  /\ pulsos = 0

DecisionNext == ScanOutput \/ Decide \/ BlinkHigh \/ BlinkLow \/ LoopReset

DecisionSpec == DecisionInit /\ [][DecisionNext]_vars

\* The characters of the strings of SanitizeSpec: those the replace calls
\* name, the comma, a digit and the point.
Sujos == {"[", "]", "{", "}", "\t", "\n", "\r", " ", ",", "1", "."}

\* Every string of at most MaxStrLen of these characters.
Cadeias == UNION {[1 .. n -> Sujos] : n \in 0 .. MaxStrLen}

\* parseMatrizFromString called with any string of Cadeias.
SanitizeInit ==
  /\ pc = "loop"
  /\ txLine = 0
  /\ txPos = 0
  /\ sent = MaxLines
  /\ rx = << >>
  /\ inputString \in Cadeias
  /\ stringComplete = TRUE
  /\ matrizEntrada = ZeroMatrix
  /\ modelInput = Flatten(ZeroMatrix)
  /\ saida = ZeroVector
  /\ maiorValor = 0
  /\ indiceMaior = -1
  /\ vezes = 0
  /\ i = 0
  /\ led = "LOW"
  /\ retorno = "none"
  /\ relato = << >>
  /\ pulsos = 0

SanitizeSpec == SanitizeInit /\ [][LoopParse]_vars

\* ------------------------------------------------- properties: the parse

\* The characters the sanitizer removes.
Decoration == {"[", "]", "{", "}", " ", "\t", "\r", "\n"}

Strip(line) == SelectSeq(line, LAMBDA c : c \notin Decoration)

\* The comma-separated tokens of a sanitized stream: one more than it has
\* commas.
RECURSIVE Split(_)
Split(s) ==
  IF \A k \in 1 .. Len(s) : s[k] # "," THEN <<s>>
  ELSE LET c == CHOOSE k \in 1 .. Len(s) : s[k] = ","
       IN  <<SubSeq(s, 1, c - 1)>> \o Split(SubSeq(s, c + 1, Len(s)))

\* The tokens of the line loop() handed to parseMatrizFromString.
Tokens == Split(Strip(inputString))

\* The tokens 1 .. n are there and none of them is empty.
FirstNonEmpty(toks, n) == Len(toks) >= n /\ \A k \in 1 .. n : toks[k] # << >>

\* parseMatrizFromString has returned in this cycle.
Parsed == retorno # "none"

\* matrizEntrada holds the first 64 tokens, row by row.
MatrixOfTokens(toks) ==
  \A r \in 0 .. tamMatriz - 1 : \A c \in 0 .. tamMatriz - 1 :
    matrizEntrada[r][c] = ToFloat(toks[r * tamMatriz + c + 1])

\* C1: a line of exactly 64 non-empty tokens, however decorated, parses
\* (return true) and leaves in matrizEntrada[r][c] the converted value of
\* token r*8+c; the example line of eight rows 0.1 .. 0.8 gives eight equal
\* rows 0.1 .. 0.8.
C1_RowMajor ==
  Parsed =>
    \A toks \in {Tokens} :
        /\ (Len(toks) = expectedValues /\ FirstNonEmpty(toks, expectedValues))
             => (retorno = "ok" /\ MatrixOfTokens(toks))
        /\ inputString \in {Exemplo, ExemploEspacado}
             => \A r \in 0 .. tamMatriz - 1 :
                  /\ matrizEntrada[r] = matrizEntrada[0]
                  /\ \A c \in 0 .. tamMatriz - 1 : matrizEntrada[r][c] = 100 * (c + 1)

C1_Witness ==
  /\ retorno = "ok"
  /\ inputString = ExemploEspacado
  /\ matrizEntrada[7][0] = 100
  /\ matrizEntrada[0][7] = 800

\* C2: a line of fewer than 64 tokens makes parseMatrizFromString return
\* false, by the count check when no token is empty; loop() then reports
\* the conversion error and goes to the end of the cycle: the engine is
\* given no input, no inference is run and the LED stays off.
C2_TooFew ==
  /\ [][ (pc = "loop" /\ pc' \in {"flatten", "reset"})
           => \A toks \in {Tokens} :
                Len(toks) < expectedValues
                  => ( /\ retorno' \in {"short", "empty"}
                       /\ FirstNonEmpty(toks, Len(toks)) => retorno' = "short"
                       /\ relato' = <<"recebida", "erro">>
                       /\ pc' = "reset" ) ]_vars
  /\ [][ (retorno \in {"short", "empty"})
           => ( /\ pc = "reset"
                /\ relato = <<"recebida", "erro">>
                /\ pulsos = 0 /\ led = "LOW"
                /\ modelInput' = modelInput /\ saida' = saida
                /\ pc' \in {"reset", "event"} ) ]_vars

C2_Witness ==
  /\ retorno = "short"
  /\ relato = <<"recebida", "erro">>
  /\ matrizEntrada # ZeroMatrix
  /\ Len(Tokens) = expectedValues - 1

\* An empty token among the first n tokens.
EmptyWithin(toks, n) == \E k \in 1 .. Len(toks) : k <= n /\ toks[k] = << >>

\* C3 as claimed: a line with an empty token at any position makes
\* parseMatrizFromString return false.
C3_AnyEmptyFails ==
  Parsed => \A toks \in {Tokens} : EmptyWithin(toks, Len(toks)) => retorno # "ok"

\* C3, amended: a line with an empty token among its first 64 tokens makes
\* parseMatrizFromString return false at the empty-token check.
C3_EmptyInFirst64 ==
  Parsed => \A toks \in {Tokens} : EmptyWithin(toks, expectedValues) => retorno = "empty"

C3_Witness ==
  /\ retorno = "empty"
  /\ \E toks \in {Tokens} :
         /\ Len(toks) = expectedValues
         /\ toks[expectedValues] = << >>
         /\ FirstNonEmpty(toks, expectedValues - 1)

\* C4: a line of more than 64 tokens, the first 64 non-empty, parses
\* (return true) and the matrix holds the first 64 tokens: what follows the
\* 64th token, empty tokens included, changes nothing.
C4_FirstOnly ==
  Parsed =>
    \A toks \in {Tokens} :
        (Len(toks) > expectedValues /\ FirstNonEmpty(toks, expectedValues))
          => (retorno = "ok" /\ MatrixOfTokens(toks))

C4_Witness ==
  /\ retorno = "ok"
  /\ \E toks \in {Tokens} :
         /\ Len(toks) = expectedValues + 2
         /\ toks[expectedValues + 1] = << >>
         /\ matrizEntrada[7][7] = ToFloat(toks[expectedValues])

\* C5: a call of parseMatrizFromString that returns false leaves all of
\* matrizEntrada as it was, one that returns true leaves the 64 values of
\* the line, and no other step writes the matrix.
C5_AllOrNothing ==
  [][ IF pc = "loop" /\ pc' \in {"flatten", "reset"}
        THEN \/ retorno' \in {"empty", "short"} /\ matrizEntrada' = matrizEntrada
             \/ /\ retorno' = "ok"
                /\ \E toks \in {Tokens} :
                       matrizEntrada' =
                         [r \in 0 .. tamMatriz - 1 |-> [c \in 0 .. tamMatriz - 1 |->
                            ToFloat(toks[r * tamMatriz + c + 1])]]
        ELSE matrizEntrada' = matrizEntrada ]_vars

C5_Witness ==
  /\ retorno = "empty"
  /\ matrizEntrada # ZeroMatrix
  /\ \E toks \in {Tokens} : Len(toks) >= expectedValues /\ toks[1] # << >>

\* ---------------------------------------------- properties: the decision

Has(seq, x) == \E k \in 1 .. Len(seq) : seq[k] = x

Labels == 0 .. NUM_LABELS - 1

\* The largest probability of the vector.
MaxOf(v) == CHOOSE m \in {v[k] : k \in Labels} : \A k \in Labels : v[k] <= m

\* The lowest index holding the largest probability.
LowestArgmax(v) ==
  CHOOSE k \in Labels : v[k] = MaxOf(v) /\ \A h \in Labels : h < k => v[h] < MaxOf(v)

\* The decision of this cycle has been taken.
Decided == Has(relato, "classe") \/ Has(relato, "nenhuma")

\* C6: when a class is reported (and the LED pulsed), indiceMaior is an
\* index 0..2 holding the largest probability, and that probability is at
\* least 0.85; when the largest probability is below 0.85 the decision is
\* "none" and the LED is not pulsed.
C6_Decision ==
  /\ Has(relato, "classe")
       => /\ indiceMaior \in Labels
          /\ saida[indiceMaior] = MaxOf(saida)
          /\ 100 * saida[indiceMaior] >= 85 * Scale
  /\ (led = "HIGH" \/ pulsos > 0) => Has(relato, "classe")
  /\ (Decided /\ 100 * MaxOf(saida) < 85 * Scale)
       => (Has(relato, "nenhuma") /\ ~Has(relato, "classe") /\ pulsos = 0 /\ led = "LOW")

C6_Witness ==
  /\ Has(relato, "classe")
  /\ led = "HIGH"
  /\ indiceMaior = 1
  /\ saida[1] = Limiar
  /\ saida[0] = 500

\* C7 as claimed: for every vector of three probabilities in [0,1] the scan
\* leaves in indiceMaior the lowest index holding the largest probability
\* and in maiorValor that probability.
C7_LowestArgmax ==
  pc \in {"decide", "high", "low", "reset"}
    => (indiceMaior = LowestArgmax(saida) /\ maiorValor = MaxOf(saida))

\* C7, amended: when some probability is above 0 the scan leaves the lowest
\* index holding the largest probability and that probability; when all
\* three are 0 it leaves index -1 and 0.  [0.10, 0.90, 0.05] gives index 1
\* with 0.90 and a reported class, [0.50, 0.50, 0.0] gives index 0 with
\* 0.50 and no class.
C7_ArgmaxOrNone ==
  pc \in {"decide", "high", "low", "reset"}
    => /\ IF MaxOf(saida) > 0
            THEN indiceMaior = LowestArgmax(saida) /\ maiorValor = MaxOf(saida)
            ELSE indiceMaior = -1 /\ maiorValor = 0
       /\ (saida[0] = 100 /\ saida[1] = 900 /\ saida[2] = 50)
            => /\ indiceMaior = 1 /\ maiorValor = 900
               /\ pc # "decide" => Has(relato, "classe")
       /\ (saida[0] = 500 /\ saida[1] = 500 /\ saida[2] = 0)
            => /\ indiceMaior = 0 /\ maiorValor = 500
               /\ pc # "decide" => (Has(relato, "nenhuma") /\ pc = "reset")

C7_Witness ==
  /\ pc = "reset"
  /\ saida[0] = 500 /\ saida[1] = 500 /\ saida[2] = 0
  /\ indiceMaior = 0
  /\ Has(relato, "nenhuma")

\* ------------------------------------------ properties: line and signal

\* C8: while stringComplete is true, inputString does not change and the
\* flag stays, except by the end of loop(), which empties the line and
\* clears the flag: however the arrival of bytes, serialEvent and loop()
\* interleave, nothing is appended to a complete line.
C8_Mailbox ==
  [][ stringComplete
        => ( \/ inputString' = inputString /\ stringComplete'
             \/ pc = "reset" /\ inputString' = << >> /\ ~stringComplete' ) ]_vars

C8_Witness ==
  /\ stringComplete
  /\ pc = "low"
  /\ Len(rx) = RxCap
  /\ inputString # << >>

\* C9: at the end of a cycle that reported class k the LED has been
\* switched on k+1 times and is off; it is on only between the two writes
\* of one pulse of piscarLED; in a cycle without a reported class (no class
\* above the threshold, parse failure, inference failure) it is never
\* switched on.
C9_Pulses ==
  /\ (pc = "reset" /\ Has(relato, "classe"))
       => (indiceMaior \in Labels /\ pulsos = indiceMaior + 1 /\ led = "LOW")
  /\ led = "HIGH" => (pc = "low" /\ Has(relato, "classe") /\ pulsos = i + 1)
  /\ pc # "low" => led = "LOW"
  /\ pulsos > 0 => (Has(relato, "classe") /\ pulsos <= indiceMaior + 1)
  /\ (Has(relato, "nenhuma") \/ Has(relato, "erro") \/ Has(relato, "falha"))
       => (pulsos = 0 /\ led = "LOW")

C9_Witness ==
  /\ pc = "reset"
  /\ Has(relato, "classe")
  /\ indiceMaior = 2
  /\ pulsos = 3
  /\ led = "LOW"

\* C10: a complete line is always consumed: whenever stringComplete is
\* true, loop() later ends its cycle with inputString empty and the flag
\* cleared, back at serialEvent for the next line, whether the parse
\* failed, the inference failed or a decision was taken; bytes of the next
\* line received meanwhile are then still waiting to be read; once loop()
\* runs, the sketch never halts.
C10_Consumed ==
  /\ stringComplete ~> (pc = "event" /\ ~stringComplete /\ inputString = << >>)
  /\ (stringComplete /\ rx # << >>)
       ~> (pc = "event" /\ ~stringComplete /\ inputString = << >> /\ rx # << >>)
  /\ [][(pc \notin {"setup", "halt"}) => pc' # "halt"]_vars

C10_Witness ==
  /\ stringComplete
  /\ pc = "reset"
  /\ Has(relato, "falha")
  /\ rx # << >>

\* --------------------------------------------------- properties: failures

\* C11: when modelRunInference fails, runInferenceAndBlinkLed returns at
\* once: the failure is the last message of the cycle, no probability is
\* read, the scan and the decision do not run, no class is reported and the
\* LED is not switched on; the cycle goes to its end.
C11_InferenceFailed ==
  Has(relato, "falha")
    => /\ pc = "reset"
       /\ relato = <<"recebida", "convertida", "falha">>
       /\ saida = ZeroVector
       /\ maiorValor = 0 /\ indiceMaior = -1
       /\ ~Decided
       /\ vezes = 0 /\ pulsos = 0 /\ led = "LOW"

C11_Witness ==
  /\ Has(relato, "falha")
  /\ pc = "reset"
  /\ retorno = "ok"
  /\ modelInput = Flatten(matrizEntrada)
  /\ matrizEntrada # ZeroMatrix

\* C12: when modelInit fails, setup() prints the failure and never
\* returns: loop() is not entered, and from then on no line is taken from
\* the receive buffer, nothing is parsed, no inference is run and the LED
\* stays off, whatever bytes arrive.
C12_Halted ==
  /\ [](Has(relato, "inicializacao")
         => /\ pc = "halt"
            /\ relato = <<"inicializacao">>
            /\ inputString = << >> /\ ~stringComplete
            /\ retorno = "none"
            /\ matrizEntrada = ZeroMatrix
            /\ modelInput = Flatten(ZeroMatrix)
            /\ saida = ZeroVector
            /\ pulsos = 0 /\ led = "LOW")
  /\ [][ (pc = "halt")
           => ( /\ pc' = "halt"
                /\ UNCHANGED << lineVars, matrizEntrada, inferVars, retorno, relato >>
                /\ Len(rx') >= Len(rx) ) ]_vars
  /\ [][ (pc = "setup" /\ pc' # "setup")
           => (pc' = "halt" <=> Has(relato', "inicializacao")) ]_vars

C12_Witness ==
  /\ pc = "halt"
  /\ Has(relato, "inicializacao")
  /\ sent = MaxLines
  /\ Len(rx) = RxCap
  /\ Has(rx, "\n")

\* ----------------------------------------------------- properties: input

\* C13: the sanitizer is idempotent, and what it returns holds none of
\* [ ] { } space, tab, carriage return and line feed: for the string s given
\* to parseMatrizFromString, Sanitize(Sanitize(s)) = Sanitize(s) and no
\* character of Sanitize(s) is one of the eight.
C13_Idempotent ==
  \A s \in {Sanitize(inputString)} :
      /\ Sanitize(s) = s
      /\ \A k \in 1 .. Len(s) : s[k] \notin Decoration

C13_Witness ==
  /\ Parsed
  /\ inputString = <<"\t", "1", "\n">>
  /\ Sanitize(inputString) = <<"1">>
  /\ retorno = "short"

\* C14: when modelRunInference is called, the parse of this cycle has
\* returned true and the input of the engine at index k holds the converted
\* value of token k of the line, for every k in 0 .. 63.
C14_EngineInput ==
  pc = "infer"
    => /\ retorno = "ok"
       /\ \A toks \in {Tokens} :
              /\ Len(toks) >= expectedValues
              /\ \A k \in 0 .. expectedValues - 1 :
                     modelInput[k] = ToFloat(toks[k + 1])

C14_Witness ==
  /\ pc = "infer"
  /\ inputString = Exemplo
  /\ modelInput[1] = 200
  /\ modelInput[tamMatriz] = 100
  /\ sent = MaxLines

\* The bytes of seq other than carriage returns.
NoCR(seq) == SelectSeq(seq, LAMBDA c : c # "\r")

\* What has been received and not yet consumed by a cycle of loop(),
\* carriage returns left out: the line in inputString, the line feed that
\* completed it, and the bytes still waiting in the receive buffer.
Fluxo ==
  (IF stringComplete THEN inputString \o <<"\n">> ELSE inputString) \o NoCR(rx)

\* The bytes of the line on the wire that have not arrived yet.
Restante ==
  IF txLine = 0 THEN << >>
  ELSE SubSeq(Wire(txLine), txPos + 1, Len(Wire(txLine)))

\* The lines of a stream that ends with a line feed.
RECURSIVE LinesOf(_)
LinesOf(s) ==
  IF s = << >> THEN << >>
  ELSE LET c == CHOOSE k \in 1 .. Len(s) : s[k] = "\n"
       IN  <<SubSeq(s, 1, c - 1)>> \o LinesOf(SubSeq(s, c + 1, Len(s)))

\* C15: the line handed to parseMatrizFromString is exactly the bytes
\* received since the previous line feed, carriage returns removed and the
\* line feed left out.  inputString never holds a carriage return or a line
\* feed; what is received and not consumed, followed by what is still to
\* arrive, is always a sequence of whole lines as sent, the last of them
\* the line on the wire; a byte that arrives is added at the end of what
\* is received, the end of a cycle removes the handed line and its line
\* feed and nothing else, and no other step drops, repeats or moves a
\* byte, whatever loop() is doing when the byte arrives.
C15_Lines ==
  /\ [](/\ \A k \in 1 .. Len(inputString) : inputString[k] \notin {"\r", "\n"}
        /\ \A all \in {Fluxo \o NoCR(Restante)} :
               all # << >>
                 => /\ all[Len(all)] = "\n"
                    /\ \A ls \in {LinesOf(all)} :
                           /\ \A k \in 1 .. Len(ls) :
                                  \E n \in 1 .. Len(Linhas) : ls[k] = Linhas[n]
                           /\ txLine # 0 => ls[Len(ls)] = Linhas[txLine])
  /\ [][ IF Len(rx') > Len(rx)
          THEN Fluxo' = Fluxo \o NoCR(<<Wire(txLine)[txPos + 1]>>)
          ELSE IF pc = "reset" /\ pc' # "reset"
            THEN stringComplete /\ Fluxo = inputString \o <<"\n">> \o Fluxo'
          ELSE Fluxo' = Fluxo ]_vars

C15_Witness ==
  /\ pc = "reset"
  /\ stringComplete
  /\ inputString = Exemplo
  /\ txLine = 2
  /\ Len(rx) = RxCap
  /\ "\r" \notin {rx[k] : k \in 1 .. Len(rx)}

\* ------------------------------------------------- properties: the cycle

\* The calls of modelRunInference in this cycle: each prints its outcome.
Chamadas == Cardinality({k \in 1 .. Len(relato) : relato[k] \in {"falha", "resultados"}})

\* The decisions printed in this cycle.
Decisoes == Cardinality({k \in 1 .. Len(relato) : relato[k] \in {"classe", "nenhuma"}})

\* C16: a completed line gets at most one classification:
\* modelRunInference is called exactly once in a cycle whose parse returned
\* true (not yet before the call, once from then to the end of the cycle)
\* and never in a cycle whose parse returned false, whatever matrix an
\* earlier line left; without a line nothing is inferred.
C16_OncePerLine ==
  /\ Chamadas <= 1 /\ Decisoes <= Chamadas
  /\ retorno \in {"empty", "short"} => (Chamadas = 0 /\ pc = "reset")
  /\ retorno = "ok"
       => /\ pc \in {"flatten", "infer", "scan", "decide", "high", "low", "reset"}
          /\ Chamadas = 0 <=> pc \in {"flatten", "infer"}
  /\ retorno = "none"
       => (Chamadas = 0 /\ pc \in {"setup", "halt", "loop", "event"})

C16_Witness ==
  /\ retorno = "empty"
  /\ pc = "reset"
  /\ Chamadas = 0
  /\ matrizEntrada # ZeroMatrix
  /\ modelInput = Flatten(matrizEntrada)

\* ------------------------------------------------ properties: the tokens

\* The token is a decimal number: an optional sign, then digits with at
\* most one point among them, at least one digit.
IsNumber(tok) ==
  LET b == IF tok # << >> /\ tok[1] \in {"+", "-"} THEN Tail(tok) ELSE tok
  IN  /\ \A k \in 1 .. Len(b) : b[k] \in Digits \cup {"."}
      /\ Cardinality({k \in 1 .. Len(b) : b[k] = "."}) <= 1
      /\ \E k \in 1 .. Len(b) : b[k] \in Digits

\* The lengths of the beginnings of the token that are decimal numbers.
NumericStarts(tok) == {p \in 1 .. Len(tok) : IsNumber(SubSeq(tok, 1, p))}

\* The longest beginning of the token that is a decimal number.
NumericStart(tok) ==
  SubSeq(tok, 1, CHOOSE p \in NumericStarts(tok) : \A q \in NumericStarts(tok) : q <= p)

\* The value stored for token k (from 1) of the line.
Stored(k) == matrizEntrada[(k - 1) \div tamMatriz][(k - 1) % tamMatriz]

\* C17 as claimed: a line whose first 64 tokens are non-empty parses
\* whatever the tokens hold, and every token among them that is not a
\* number is stored as 0.0.
C17_NonNumberIsZero ==
  Parsed =>
    \A toks \in {Tokens} :
        FirstNonEmpty(toks, expectedValues)
          => /\ retorno = "ok"
             /\ \A k \in 1 .. expectedValues :
                    ~IsNumber(toks[k]) => Stored(k) = 0

\* C17, amended: a line whose first 64 tokens are non-empty parses whatever
\* the tokens hold; a token among them that is not a number is stored as
\* 0.0 when no beginning of it is a number, and otherwise as the value of
\* its longest beginning that is one ("7x" is stored as 7.0).
C17_NumericStart ==
  Parsed =>
    \A toks \in {Tokens} :
        FirstNonEmpty(toks, expectedValues)
          => /\ retorno = "ok"
             /\ \A k \in 1 .. expectedValues :
                    ~IsNumber(toks[k])
                      => IF NumericStarts(toks[k]) = {} THEN Stored(k) = 0
                         ELSE Stored(k) = ToFloat(NumericStart(toks[k]))

C17_Witness ==
  /\ retorno = "ok"
  /\ \E toks \in {Tokens} :
         /\ FirstNonEmpty(toks, expectedValues)
         /\ \E k \in 1 .. expectedValues : toks[k] = <<"x">> /\ Stored(k) = 0
         /\ \E k \in 1 .. expectedValues : toks[k] = <<"7", "x">> /\ Stored(k) = 7 * Scale

\* ------------------------------------------------ properties: the arrays

\* C18: every array access is in bounds.  A pass of the scanning loop that
\* stores a value writes valores[idx] with idx in 0 .. 63, whatever the
\* line; LABELS is indexed for the report of the detected class, and the
\* class turned into a number of pulses, only with indiceMaior in 0 .. 2:
\* the index -1 the scan starts with, kept when no probability is above 0,
\* never reaches the report or piscarLED.
C18_InBounds ==
  /\ [](/\ indiceMaior \in {-1} \cup Labels
        /\ Has(relato, "classe") => indiceMaior \in Labels
        /\ indiceMaior = -1 => (~Has(relato, "classe") /\ vezes = 0 /\ pulsos = 0)
        /\ pc \in {"high", "low"} => (indiceMaior \in Labels /\ vezes = indiceMaior + 1))
  /\ [][ (pc = "loop" /\ pc' \in {"flatten", "reset"})
           => \A ps \in {ScanPasses(Sanitize(inputString), ScanStart)} :
                \A n \in 1 .. Len(ps) - 1 :
                  ps[n + 1].idx # ps[n].idx
                    => /\ ps[n].idx \in 0 .. expectedValues - 1
                       /\ Len(ps[n].valores) = ps[n].idx
                       /\ Len(ps[n + 1].valores) = ps[n].idx + 1 ]_vars

C18_Witness ==
  /\ pc = "reset"
  /\ Has(relato, "nenhuma")
  /\ saida = ZeroVector
  /\ indiceMaior = -1
  /\ Len(Tokens) = expectedValues + 1

\* C19: the scanning loop of parseMatrizFromString terminates on every
\* line: a pass of its body ends with the return false, with the break at
\* the end of the string, or with start and idx both strictly larger than
\* before the pass (idx by one, start within the string or just past its
\* end), so the body runs at most 64 times; the call then returns as the
\* last pass left the loop.
C19_ScanTerminates ==
  \A str \in {Sanitize(inputString)} :
    \A ps \in {ScanPasses(str, ScanStart)} :
      /\ Len(ps) - 1 <= expectedValues
      /\ \A n \in 1 .. Len(ps) - 1 :
             \/ ps[n + 1].exit = "empty"
             \/ ps[n + 1].exit = "done" /\ IndexOf(str, ",", ps[n].start) = -1
             \/ /\ ps[n + 1].exit = "more"
                /\ ps[n + 1].start > ps[n].start
                /\ ps[n + 1].start <= Len(str)
                /\ ps[n + 1].idx = ps[n].idx + 1
      /\ Parsed => (retorno = "empty" <=> ps[Len(ps)].exit = "empty")
      /\ Parsed => (retorno = "ok" <=> ps[Len(ps)].idx = expectedValues)

C19_Witness ==
  /\ Parsed
  /\ retorno = "ok"
  /\ Len(Tokens) = expectedValues + 2
  /\ \E ps \in {ScanPasses(Sanitize(inputString), ScanStart)} :
         /\ Len(ps) = expectedValues + 1
         /\ ps[Len(ps)].exit = "more"
         /\ ps[Len(ps)].start < Len(Sanitize(inputString))

====
